---- MODULE Spec2Model ----
(***************************************************************************)
(* Model of the marketplace analytics dashboard:                           *)
(*   - marketplace_dashboard.py : clean / import_to_db / the KPI section   *)
(*     of main() over the single-table store `sales`;                      *)
(*   - marketplace_api.py       : get_orders_worten (offset pagination);   *)
(*   - marketplace_api/worten.py, leroymerlin.py : the MarketplaceAPI      *)
(*     clients; marketplace_api/__init__.py : get_api.                     *)
(*                                                                         *)
(* Specifications:                                                         *)
(*   Spec      one dashboard session calling import_to_db                  *)
(*   SpecKpi   the same session also reading the KPI section               *)
(*   SpecConc  two dashboard sessions running import_to_db concurrently    *)
(*   SpecFetch the three order fetchers against a paginating server        *)
(*   SpecApi   get_api                                                     *)
(***************************************************************************)
EXTENDS Integers, Sequences, FiniteSets, TLC

VARIABLES
    sales,      \* the rows of table `sales`, in id order (id = position)
    run,        \* position of the dashboard script run: "idle", "imported", "rendered"
    ret,        \* outcome of the import_to_db call of this run
    view,       \* what the KPI section of main() rendered in this run
    sess,       \* SpecConc: per session, the position inside import_to_db
    fetch,      \* SpecFetch: the running order fetcher (locals of get_orders)
    api         \* SpecApi: last get_api call and the clients created so far

vars == <<sales, run, ret, view, sess, fetch, api>>

(***************************************************************************)
(* Bounds                                                                  *)
(***************************************************************************)
MaxTable == 2       \* import_to_db is not called once the table holds this many rows
MaxOrders == 3      \* orders the marketplace server holds in the date range
MaxPage == 2        \* largest page size ("max") a fetcher asks for
MaxName == 4        \* longest marketplace name passed to get_api, in symbols
MaxClients == 2     \* get_api is not called once this many clients exist

(***************************************************************************)
(* Values                                                                  *)
(***************************************************************************)
\* A timestamp is <<day, time of day>>; time 0 is midnight.
Days == {1, 2}
Timestamps == {<<1, 0>>, <<1, 1>>, <<2, 0>>}

\* pandas NaT: what to_datetime(errors="coerce") gives for a blank or
\* unparseable cell, and what a NULL order_date reads back as.
NaT == <<0, 0>>

\* A spreadsheet date cell: <<"ts", day, time>> or a blank cell.
BlankCell == <<"blank", 0, 0>>
DateCells == {BlankCell} \cup {<<"ts", t[1], t[2]>> : t \in Timestamps}

\* A missing cell of an object column (NaN), and a NULL / None value.
NaN == "<NaN>"
None == "<None>"
SkuCells == {"A", NaN}

Markets == {"m1", "m2"}
Sheets == {"s1"}

\* The non-key cells of a spreadsheet row.
Amounts ==
    { [product_name |-> "p", quantity |-> 1, sale |-> 5, purchase_cost |-> 2, commission |-> 1],
      [product_name |-> "q", quantity |-> 2, sale |-> 9, purchase_cost |-> 3, commission |-> 2] }

\* A row of the frames parse_excel hands to import_to_db: the renamed
\* spreadsheet columns plus the sheet and marketplace parse_excel sets.
RawRows ==
    { [date |-> d, sku |-> s, marketplace |-> m, sheet |-> h, amounts |-> a] :
        d \in DateCells, s \in SkuCells, m \in Markets, h \in Sheets, a \in Amounts }

\* pd.concat(dfs): the rows of all frames of one call, at most two here.
\* <<>> is the empty list of frames.
Batches(rows) ==
    {<<>>} \cup {<<r>> : r \in rows} \cup {<<r, s>> : r \in rows, s \in rows}

\* The inputs of one import_to_db call: the concatenated frames, and whether
\* any frame has an SKU/EAN column (hasSku); without the column no row has
\* an sku cell.
Inputs ==
    { [dfs |-> b, hasSku |-> TRUE] : b \in Batches(RawRows) }
    \cup { [dfs |-> b, hasSku |-> FALSE] : b \in Batches({r \in RawRows : r.sku = NaN}) }

(***************************************************************************)
(* Sequence helpers                                                        *)
(***************************************************************************)
RECURSIVE SelectFrom(_, _, _)
\* the subsequence of s at the indices i >= from that are in keep, order kept
SelectFrom(s, keep, from) ==
    IF from > Len(s) THEN <<>>
    ELSE IF from \in keep THEN <<s[from]>> \o SelectFrom(s, keep, from + 1)
    ELSE SelectFrom(s, keep, from + 1)

\* df[mask]: the rows of s at the indices in keep
SelectIdx(s, keep) == SelectFrom(s, keep, 1)

RECURSIVE SumCol(_, _)
\* Series.sum() of column col
SumCol(s, col) ==
    IF s = <<>> THEN 0 ELSE s[1][col] + SumCol(Tail(s), col)

Pick(S) == CHOOSE x \in S : TRUE

RECURSIVE SumOver(_, _)
\* the sum of f[x] over the finite set S
SumOver(f, S) ==
    IF S = {} THEN 0 ELSE f[Pick(S)] + SumOver(f, S \ {Pick(S)})

(***************************************************************************)
(* clean                                                                   *)
(***************************************************************************)
\* pd.to_datetime(cell, errors="coerce")
ToDatetime(c) == IF c[1] = "ts" THEN <<c[2], c[3]>> ELSE NaT

\* Series.astype(str): a NaN cell becomes the string "nan"
AsTypeStr(x) == IF x = NaN THEN "nan" ELSE x

\* clean() of one row. hasSku: some frame of the call has an SKU/EAN column;
\* when none has, clean() fills the column with None.
CleanRow(r, hasSku) ==
    [ order_date    |-> ToDatetime(r.date),
      marketplace   |-> AsTypeStr(r.marketplace),
      sheet         |-> AsTypeStr(r.sheet),
      sku           |-> IF hasSku THEN AsTypeStr(r.sku) ELSE None,
      product_name  |-> AsTypeStr(r.amounts.product_name),
      quantity      |-> r.amounts.quantity,
      sale          |-> r.amounts.sale,
      purchase_cost |-> r.amounts.purchase_cost,
      commission    |-> r.amounts.commission ]

clean(df, hasSku) == [i \in DOMAIN df |-> CleanRow(df[i], hasSku)]

(***************************************************************************)
(* import_to_db                                                            *)
(***************************************************************************)
Key(r) == <<r.order_date, r.marketplace, r.sheet, r.sku>>

\* DataFrame.drop_duplicates(subset=key): the first row of every key is
\* kept; pandas counts NaT equal to NaT and None equal to None here.
DropDuplicates(big) ==
    SelectIdx(big, {i \in DOMAIN big : \A j \in 1..(i - 1) : Key(big[j]) # Key(big[i])})

\* pd.read_sql("SELECT order_date,marketplace,sheet,sku FROM sales"):
\* a NULL order_date reads back as NaT, a NULL sku as None.
ReadExisting(table) == {Key(table[i]) : i \in DOMAIN table}

\* big.merge(existing, how="left", indicator=True) kept where left_only;
\* the merge is skipped when existing is empty. pandas merges match null
\* keys with null keys.
LeftOnlyKeepAll(big, existing) == big
LeftOnly(big, existing) ==
    IF existing = {} THEN big
    ELSE SelectIdx(big, {i \in DOMAIN big : Key(big[i]) \notin existing})

\* UNIQUE(order_date, marketplace, sheet, sku) of SQLite: two rows collide
\* when their keys are equal and hold no NULL (NULLs are distinct).
HasNull(k) == k[1] = NaT \/ k[4] = None
UniqueViolation(r1, r2) == Key(r1) = Key(r2) /\ ~HasNull(Key(r1))

\* big.to_sql("sales", if_exists="append") in one transaction: every row is
\* appended, or the constraint fails and the transaction is rolled back.
ToSqlReplace(table, big) == [ok |-> TRUE, table |-> big]
ToSql(table, big) ==
    LET all == table \o big
    IN  IF \E i \in DOMAIN all : \E j \in DOMAIN all :
               i < j /\ j > Len(table) /\ UniqueViolation(all[i], all[j])
        THEN [ok |-> FALSE, table |-> table]
        ELSE [ok |-> TRUE, table |-> all]

NoRet == [status |-> "none", returned |-> 0, nInput |-> 0, nUnique |-> 0,
          skipped |-> {}, clash |-> FALSE]

\* import_to_db up to the read of the existing keys: clean(pd.concat(dfs))
\* with the duplicated keys dropped.
Prepare(dfs, hasSku) == DropDuplicates(clean(dfs, hasSku))

\* import_to_db after the read of the existing keys: the merge against the
\* keys read, the early return when nothing is left, and the insert, which
\* runs on the table as it is then.
Finish(table, big, existing) ==
    LET new == LeftOnly(big, existing)
    IN  IF new = <<>> THEN [table |-> table, status |-> "ok", returned |-> 0]
        ELSE LET w == ToSql(table, new)
             IN  IF w.ok
                 THEN [table |-> w.table, status |-> "ok", returned |-> Len(new)]
                 ELSE [table |-> w.table, status |-> "IntegrityError", returned |-> 0]

\* import_to_db(dfs) run alone on a table: the new table and the outcome
\* (returned: the "Righe nuove" count). Kept for the properties: skipped,
\* the keys the merge filtered out, and clash, an input row met a stored row
\* of the same key and different values.
ImportResult(table, dfs, hasSku) ==
    IF dfs = <<>> THEN [table |-> table, ret |-> [NoRet EXCEPT !.status = "ok"]]
    ELSE
    LET big      == Prepare(dfs, hasSku)
        existing == ReadExisting(table)
        done     == Finish(table, big, existing)
        added    == SubSeq(done.table, Len(table) + 1, Len(done.table))
    IN  [ table |-> done.table,
          ret   |-> [ status   |-> done.status,
                      returned |-> done.returned,
                      nInput   |-> Len(dfs),
                      nUnique  |-> Len(big),
                      skipped  |-> {Key(big[i]) : i \in DOMAIN big}
                                     \ {Key(added[i]) : i \in DOMAIN added},
                      clash    |-> \E i \in DOMAIN big : \E j \in DOMAIN table :
                                       Key(big[i]) = Key(table[j]) /\ big[i] # table[j] ] ]

NoView == [shown |-> "none"]

\* The "Aggiorna ora" button of main(): one import_to_db call.
ImportToDb ==
    /\ run = "idle"
    /\ \E in \in Inputs :
          /\ Len(sales) + Len(in.dfs) <= MaxTable
          /\ LET res == ImportResult(sales, in.dfs, in.hasSku)
             IN  /\ sales' = res.table
                 /\ ret' = res.ret
    /\ run' = "imported"
    /\ UNCHANGED <<view, sess, fetch, api>>

\* Streamlit runs the script again on the next interaction.
Rerun ==
    /\ run \in {"imported", "rendered"}
    /\ run' = "idle"
    /\ ret' = NoRet
    /\ view' = NoView
    /\ UNCHANGED <<sales, sess, fetch, api>>

(***************************************************************************)
(* main(): the spreadsheet KPI section                                     *)
(***************************************************************************)
\* pd.to_datetime(sd) of a date: midnight of that day
DateToTimestamp(d) == <<d, 0>>

TsLeq(a, b) == a[1] < b[1] \/ (a[1] = b[1] /\ a[2] <= b[2])

\* Series.between(left, right), inclusive="both"; NaT is between nothing
Between(x, left, right) == x # NaT /\ TsLeq(left, x) /\ TsLeq(x, right)

\* SELECT DISTINCT marketplace FROM sales: the options of the multiselect
MarketsInDb(table) == {table[i].marketplace : i \in DOMAIN table}

\* df[df["marketplace"].isin(sel) & df["order_date"].between(left, right)]
Filt(table, sel, sd, ed) ==
    SelectIdx(table,
              { i \in DOMAIN table :
                  /\ table[i].marketplace \in sel
                  /\ Between(table[i].order_date, DateToTimestamp(sd), DateToTimestamp(ed)) })

\* filt.groupby("marketplace").agg(sum) with margine_lordo added, before
\* the columns are formatted for display
Summary(filt) ==
    [ m \in {filt[i].marketplace : i \in DOMAIN filt} |->
        LET g == SelectIdx(filt, {i \in DOMAIN filt : filt[i].marketplace = m})
        IN  [ vendite       |-> SumCol(g, "sale"),
              acquisto      |-> SumCol(g, "purchase_cost"),
              commissione   |-> SumCol(g, "commission"),
              margine_lordo |-> SumCol(g, "sale")
                                  - (SumCol(g, "purchase_cost") + SumCol(g, "commission")) ] ]

\* The KPI metrics and the marketplace summary main() shows for the
\* selection; "Nessun record" and an early return when nothing is left.
Kpi(table, sel, sd, ed) ==
    LET filt == Filt(table, sel, sd, ed)
        base == [shown |-> "warning", sel |-> sel, sd |-> sd, ed |-> ed, filt |-> filt,
                 n_ordini |-> 0, sales_sum |-> 0, cost_sum |-> 0, comm_sum |-> 0,
                 margin_l |-> 0, summary |-> <<>>]
    IN  IF filt = <<>> THEN base
        ELSE [base EXCEPT
                !.shown     = "kpi",
                !.n_ordini  = Len(filt),
                !.sales_sum = SumCol(filt, "sale"),
                !.cost_sum  = SumCol(filt, "purchase_cost"),
                !.comm_sum  = SumCol(filt, "commission"),
                !.margin_l  = SumCol(filt, "sale")
                                - (SumCol(filt, "purchase_cost") + SumCol(filt, "commission")),
                !.summary   = Summary(filt)]

\* The rest of the script run: the marketplace multiselect, the date range
\* (date_input gives sd <= ed) and the KPI section.
Render ==
    /\ run \in {"idle", "imported"}
    /\ \E sel \in SUBSET MarketsInDb(sales) : \E sd \in Days : \E ed \in Days :
          /\ sd <= ed
          /\ view' = Kpi(sales, sel, sd, ed)
    /\ run' = "rendered"
    /\ ret' = NoRet
    /\ UNCHANGED <<sales, sess, fetch, api>>

(***************************************************************************)
(* Two dashboard sessions in import_to_db at once                          *)
(***************************************************************************)
Sessions == {1, 2}

IdleSess == [pc |-> "idle", big |-> <<>>, existing |-> {}, status |-> "none", returned |-> 0]

\* The spreadsheets the two sessions upload: rows of one marketplace and
\* sheet, with or without a date.
ConcInputs ==
    { in \in Inputs :
        /\ in.hasSku
        /\ \A i \in DOMAIN in.dfs :
              /\ in.dfs[i].marketplace = "m1"
              /\ in.dfs[i].sku = "A"
              /\ in.dfs[i].date \in {BlankCell, <<"ts", 1, 0>>} }

\* Session p enters import_to_db and runs it up to the end of the first
\* transaction, the read of the existing keys.
SessRead(p) ==
    /\ sess[p].pc = "idle"
    /\ \E in \in ConcInputs :
          sess' = [sess EXCEPT ![p] =
                     IF in.dfs = <<>>
                     THEN [IdleSess EXCEPT !.pc = "done", !.status = "ok"]
                     ELSE [IdleSess EXCEPT !.pc = "read",
                                           !.big = Prepare(in.dfs, in.hasSku),
                                           !.existing = ReadExisting(sales)]]
    /\ UNCHANGED <<sales, run, ret, view, fetch, api>>

\* Session p runs the rest of import_to_db: the merge against the keys it
\* read and the second transaction, the insert.
SessInsert(p) ==
    /\ sess[p].pc = "read"
    /\ LET done == Finish(sales, sess[p].big, sess[p].existing)
       IN  /\ sales' = done.table
           /\ sess' = [sess EXCEPT ![p].pc = IF done.status = "ok" THEN "done" ELSE "raised",
                                    ![p].status = done.status,
                                    ![p].returned = done.returned]
    /\ UNCHANGED <<run, ret, view, fetch, api>>

(***************************************************************************)
(* The marketplace server                                                  *)
(***************************************************************************)
\* The order lines of the k-th order, n of them.
OrderLines(k, n) == [i \in 1..n |-> [offer_sku |-> <<k, i>>, product_title |-> <<"title", k, i>>]]

\* What distinguishes the orders of the server: the number of order lines
\* and the shipping price; every order carries a tax amount.
OrderShapes == { [lines |-> n, shipping_price |-> sp] : n \in {0, 1, 2}, sp \in {0, 5} }

\* The JSON object of the k-th order of the server.
Order(k, shape) ==
    [ order_id         |-> k,
      creation_date    |-> <<"ts", k, 1>>,
      order_state      |-> <<"state", k>>,
      price            |-> 10 + k,
      total_price      |-> 20 + k,
      shipping_price   |-> shape.shipping_price,
      tax_amount       |-> 2,
      total_commission |-> k,
      order_lines      |-> OrderLines(k, shape.lines) ]

ShapeSeqs == UNION { [1..n -> OrderShapes] : n \in 0..MaxOrders }

\* A server: its orders of the date range, in server order, and whether
\* its responses carry total_count.
Servers ==
    { [orders |-> [k \in DOMAIN sh |-> Order(k, sh[k])], has_total |-> t] :
        sh \in ShapeSeqs, t \in BOOLEAN }

Min(a, b) == IF a <= b THEN a ELSE b

\* The 200 response to GET orders?offset=..&max=..: the orders at positions
\* offset .. offset+max-1, total_count when the server sends it, and for
\* the page-token API the token of the next page while one is left.
Payload(server, offset, max) ==
    [ orders      |-> SubSeq(server.orders, offset + 1, Min(offset + max, Len(server.orders))),
      has_total   |-> server.has_total,
      total_count |-> Len(server.orders),
      next        |-> IF offset + max < Len(server.orders) THEN offset + max ELSE 0 ]

(***************************************************************************)
(* The order fetchers                                                      *)
(***************************************************************************)
NoResult == [kind |-> "none", cols |-> {}, rows |-> <<>>]

IdleFetch ==
    [ pc |-> "idle", who |-> "none", server |-> [orders |-> <<>>, has_total |-> FALSE],
      page_size |-> 0, offset |-> 0, all_orders |-> <<>>, nreq |-> 0, failed |-> FALSE,
      result |-> NoResult, exc |-> "none", shown |-> "none" ]

\* dict.get(key, default) on an order
Get(o, key, default) == IF key \in DOMAIN o THEN o[key] ELSE default

\* a or b on numbers: 0 and a missing key (None) are falsy
OrNum(a, b) == IF a # 0 THEN a ELSE b

\* a or b on lists: the empty list and a missing key are falsy
OrSeq(a, b) == IF a # <<>> THEN a ELSE b

\* o.get(k1) or o.get(k2) or ... or 0 over the keys ks, in order
RECURSIVE FirstNum(_, _)
FirstNum(o, ks) ==
    IF ks = <<>> THEN 0 ELSE OrNum(Get(o, Head(ks), 0), FirstNum(o, Tail(ks)))

\* WortenAPI.get_orders, step 3: the rows of one order, one per order line.
WortenRows(o) ==
    LET oid    == Get(o, "order_id", 0)
        dt     == IF "creation_date" \in DOMAIN o THEN o.creation_date
                  ELSE IF "creationDate" \in DOMAIN o THEN o.creationDate
                  ELSE IF "dateCreated" \in DOMAIN o THEN o.dateCreated
                  ELSE Get(o, "date_created", BlankCell)
        status == IF "order_state" \in DOMAIN o THEN o.order_state
                  ELSE IF "order_status" \in DOMAIN o THEN o.order_status
                  ELSE Get(o, "status", <<>>)
        sale   == FirstNum(o, <<"total_price", "totalPrice", "price">>)
        taxes  == FirstNum(o, <<"shipping_price", "shippingPrice", "tax_amount", "taxAmount">>)
        comm   == FirstNum(o, <<"total_commission", "commissionAmount",
                                "commission_amount", "commission">>)
        ship   == FirstNum(o, <<"shipping_price", "shippingPrice",
                                "shipping_amount", "shippingAmount">>)
        lines  == OrSeq(Get(o, "order_lines", <<>>), Get(o, "items", <<>>))
    IN  [ i \in DOMAIN lines |->
            [ order_id     |-> oid,
              order_date   |-> ToDatetime(dt),
              order_status |-> status,
              sale_price   |-> sale,
              taxes        |-> taxes,
              commission   |-> comm,
              shipping     |-> ship,
              sku          |-> Get(lines[i], "offer_sku", <<>>),
              product_name |-> Get(lines[i], "product_title", <<>>) ] ]

\* LeroyMerlinAPI.get_orders: the rows of one order, one per order line.
LeroyRows(o) ==
    LET dt    == IF "creation_date" \in DOMAIN o THEN o.creation_date
                 ELSE IF "creationDate" \in DOMAIN o THEN o.creationDate
                 ELSE IF "dateCreated" \in DOMAIN o THEN o.dateCreated
                 ELSE Get(o, "date_created", BlankCell)
        lines == OrSeq(Get(o, "order_lines", <<>>), Get(o, "items", <<>>))
    IN  [ i \in DOMAIN lines |->
            [ order_id     |-> Get(o, "order_id", 0),
              order_date   |-> ToDatetime(dt),
              sale_price   |-> FirstNum(o, <<"total_price", "totalPrice">>),
              taxes        |-> Get(o, "tax_amount", 0),
              commission   |-> FirstNum(o, <<"commission_total_amount", "commission_amount">>),
              shipping     |-> FirstNum(o, <<"shipping_price", "shippingPrice">>),
              sku          |-> Get(lines[i], "offer_sku", <<>>),
              product_name |-> Get(lines[i], "product_title", <<>>),
              order_status |-> Get(o, "order_status", <<>>) ] ]

RECURSIVE Flatten(_)
\* the rows of all orders, in order
Flatten(rowsPerOrder) ==
    IF rowsPerOrder = <<>> THEN <<>>
    ELSE Head(rowsPerOrder) \o Flatten(Tail(rowsPerOrder))

LineCols ==
    {"order_id", "order_date", "order_status", "sale_price", "taxes", "commission",
     "shipping", "sku", "product_name"}

\* WortenAPI.get_orders / LeroyMerlinAPI.get_orders after the paging loop:
\* the empty frame with all columns when nothing was fetched; otherwise
\* pd.DataFrame(rows), whose order_date is then converted. A frame built
\* from no row has no column, and df["order_date"] raises KeyError.
LineTable(all_orders, rowsPerOrder) ==
    IF all_orders = <<>> THEN [kind |-> "table", cols |-> LineCols, rows |-> <<>>]
    ELSE LET rows == Flatten(rowsPerOrder)
         IN  IF rows = <<>> THEN [kind |-> "KeyError", cols |-> {}, rows |-> <<>>]
             ELSE [kind |-> "table", cols |-> LineCols, rows |-> rows]

WortenTable(all_orders) ==
    LineTable(all_orders, [k \in DOMAIN all_orders |-> WortenRows(all_orders[k])])

LeroyTable(all_orders) ==
    LineTable(all_orders, [k \in DOMAIN all_orders |-> LeroyRows(all_orders[k])])

OrderCols ==
    {"order_id", "order_date", "sale_price", "taxes", "commission", "shipping",
     "order_status", "product_name"}

\* get_orders_worten after the paging loop: pd.DataFrame() when nothing was
\* fetched; otherwise one row per order. On the orders of this server the
\* column heuristics pick order_id, creation_date, price, tax_amount,
\* total_commission, shipping_price and order_state, and no line has a
\* productTitle, so product_name is "".
OrdersTable(all_orders) ==
    IF all_orders = <<>> THEN [kind |-> "table", cols |-> {}, rows |-> <<>>]
    ELSE [ kind |-> "table", cols |-> OrderCols,
           rows |-> [ k \in DOMAIN all_orders |->
                        LET o == all_orders[k]
                        IN  [ order_id     |-> o.order_id,
                              order_date   |-> ToDatetime(o.creation_date)[1],
                              sale_price   |-> Get(o, "price", 0),
                              taxes        |-> o.tax_amount,
                              commission   |-> o.total_commission,
                              shipping     |-> o.shipping_price,
                              order_status |-> o.order_state,
                              product_name |-> <<>> ] ] ]

\* The end of a fetcher after its paging loop.
Finished(f, table) ==
    IF table.kind = "table"
    THEN [f EXCEPT !.pc = "done", !.result = table]
    ELSE [f EXCEPT !.pc = "raised", !.exc = table.kind]

Build(f) ==
    Finished(f, CASE f.who = "WortenAPI"      -> WortenTable(f.all_orders)
                  [] f.who = "LeroyMerlinAPI" -> LeroyTable(f.all_orders)
                  [] OTHER                    -> OrdersTable(f.all_orders))

\* resp.raise_for_status() on an HTTP error status: the exception leaves
\* the fetcher.
RaiseForStatusSwallowed(f) == Build(f)
RaiseForStatus(f) == [f EXCEPT !.pc = "raised", !.exc = "HTTPError"]

\* payload.get("total_count", len(batch)) of WortenAPI.get_orders
WortenTotal(payload, batch) == IF payload.has_total THEN payload.total_count ELSE Len(batch)

\* resp.json().get("total_count", 0) of get_orders_worten
LegacyTotal(payload, batch) == IF payload.has_total THEN payload.total_count ELSE 0

\* One pass of the paging loop of the offset fetchers on a 200 response.
OffsetPage(f, payload, total) ==
    LET batch == payload.orders
    IN  IF batch = <<>> THEN Build(f)
        ELSE LET g == [f EXCEPT !.all_orders = @ \o batch, !.offset = @ + Len(batch)]
             IN  IF g.offset >= total THEN Build(g) ELSE g

\* One pass of the paging loop of LeroyMerlinAPI.get_orders on a 200
\* response; offset holds params["page_token"].
TokenPage(f, payload) ==
    LET data == payload.orders
    IN  IF data = <<>> THEN Build(f)
        ELSE LET g == [f EXCEPT !.all_orders = @ \o data]
             IN  IF payload.next = 0 THEN Build(g) ELSE [g EXCEPT !.offset = payload.next]

Fetchers == {"get_orders_worten", "WortenAPI", "LeroyMerlinAPI"}

\* A fetcher is called for a date range the server holds orders of.
Call ==
    /\ fetch.pc = "idle"
    /\ \E who \in Fetchers : \E server \in Servers : \E page_size \in 1..MaxPage :
          fetch' = [IdleFetch EXCEPT !.pc = "paging", !.who = who, !.server = server,
                                     !.page_size = page_size]
    /\ UNCHANGED <<sales, run, ret, view, sess, api>>

\* The request of one page gets its response, a 200 or an HTTP error.
\* nreq counts the requests sent; failed: some response was an error.
Page ==
    /\ fetch.pc = "paging"
    /\ \E http \in {200, 500} :
          LET sent    == [fetch EXCEPT !.nreq = @ + 1, !.failed = @ \/ http # 200]
              payload == Payload(fetch.server, fetch.offset, fetch.page_size)
          IN  fetch' =
                IF http # 200 THEN RaiseForStatus(sent)
                ELSE CASE fetch.who = "WortenAPI" ->
                            OffsetPage(sent, payload, WortenTotal(payload, payload.orders))
                       [] fetch.who = "get_orders_worten" ->
                            OffsetPage(sent, payload, LegacyTotal(payload, payload.orders))
                       [] OTHER -> TokenPage(sent, payload)
    /\ UNCHANGED <<sales, run, ret, view, sess, api>>

\* main(), "Vendite Estratte da Worten": the dashboard reads the frame of
\* get_orders_worten. orders_df.get(col, 0) of a missing column is the
\* number 0, which has no fillna; orders_df["order_id"] of a missing column
\* raises KeyError.
ShowOrders ==
    /\ fetch.pc = "done"
    /\ fetch.who = "get_orders_worten"
    /\ fetch.shown = "none"
    /\ fetch' = [fetch EXCEPT !.shown =
                    IF ~({"sale_price", "taxes", "commission", "shipping"} \subseteq fetch.result.cols)
                    THEN "AttributeError"
                    ELSE IF ~({"order_id", "order_date", "product_name", "order_status"}
                                \subseteq fetch.result.cols)
                    THEN "KeyError"
                    ELSE "shown"]
    /\ UNCHANGED <<sales, run, ret, view, sess, api>>

(***************************************************************************)
(* get_api                                                                 *)
(***************************************************************************)
\* A marketplace name is a sequence of symbols: whitespace characters and
\* words ("worten" is "Worten" in another case).
Whitespace == {" ", "\t"}
Symbols == Whitespace \cup {"Worten", "worten", "Leroy", "Merlin"}
Names == UNION { [1..n -> Symbols] : n \in 0..MaxName }

\* APIS: the registered client classes, "Worten" and "Leroy Merlin"
APIS == (<<"Worten">> :> "WortenAPI") @@ (<<"Leroy", " ", "Merlin">> :> "LeroyMerlinAPI")

RECURSIVE LStrip(_)
LStrip(name) ==
    IF name # <<>> /\ Head(name) \in Whitespace THEN LStrip(Tail(name)) ELSE name

RECURSIVE RStrip(_)
RStrip(name) ==
    IF name # <<>> /\ name[Len(name)] \in Whitespace
    THEN RStrip(SubSeq(name, 1, Len(name) - 1))
    ELSE name

\* str.strip()
StripLeftOnly(name) == LStrip(name)
Strip(name) == RStrip(LStrip(name))

IdleApi == [pc |-> "idle", name |-> <<>>, ret |-> [kind |-> "none", class |-> "none"], created |-> <<>>]

\* get_api(name): the client of the class registered under the stripped
\* name, or ValueError. created lists the clients instantiated so far.
GetApiResult(a, name) ==
    LET stripped == Strip(name)
    IN  IF stripped \notin DOMAIN APIS
        THEN [a EXCEPT !.pc = "called", !.name = name,
                       !.ret = [kind |-> "ValueError", class |-> "none"]]
        ELSE [a EXCEPT !.pc = "called", !.name = name,
                       !.ret = [kind |-> "client", class |-> APIS[stripped]],
                       !.created = Append(@, APIS[stripped])]

GetApi ==
    /\ api.pc = "idle"
    /\ Len(api.created) < MaxClients
    /\ \E name \in Names : api' = GetApiResult(api, name)
    /\ UNCHANGED <<sales, run, ret, view, sess, fetch>>

\* The caller takes the client or the exception.
ApiReturn ==
    /\ api.pc = "called"
    /\ api' = [IdleApi EXCEPT !.created = api.created]
    /\ UNCHANGED <<sales, run, ret, view, sess, fetch>>

Init ==
    /\ sales = <<>>
    /\ run = "idle"
    /\ ret = NoRet
    /\ view = NoView
    /\ sess = [p \in Sessions |-> IdleSess]
    /\ fetch = IdleFetch
    /\ api = IdleApi

Next == ImportToDb \/ Rerun

\* One dashboard session importing spreadsheets.
Spec == Init /\ [][Next]_vars

NextKpi == ImportToDb \/ Render \/ Rerun

\* One dashboard session importing spreadsheets and reading the KPIs.
SpecKpi == Init /\ [][NextKpi]_vars

NextConc == \E p \in Sessions : SessRead(p) \/ SessInsert(p)

\* Two dashboard sessions, each calling import_to_db once.
SpecConc == Init /\ [][NextConc]_vars

NextFetch == Call \/ Page \/ ShowOrders

\* One call of an order fetcher, and the dashboard section reading it.
SpecFetch == Init /\ [][NextFetch]_vars

NextApi == GetApi \/ ApiReturn

\* Calls of get_api.
SpecApi == Init /\ [][NextApi]_vars

(***************************************************************************)
(* Properties of import_to_db                                              *)
(***************************************************************************)
\* C1: after any sequence of import_to_db calls from an empty table, no two
\* rows of sales have the same (order_date, marketplace, sheet, sku), a
\* missing order_date or sku counting as a value of the key.
C1_NoDuplicateKeys ==
    \A i \in DOMAIN sales : \A j \in DOMAIN sales :
        i # j => <<sales[i].order_date, sales[i].marketplace, sales[i].sheet, sales[i].sku>>
                 # <<sales[j].order_date, sales[j].marketplace, sales[j].sheet, sales[j].sku>>

\* C1 witness: a call brought a row whose order_date or sku is missing and
\* whose key was already stored, and the call stored nothing for it.
C1_MissingKeyReimported ==
    /\ run = "imported"
    /\ ret.status = "ok"
    /\ \E k \in ret.skipped : k[1] = NaT \/ k[4] = None \/ k[4] = "nan"
    /\ \E i \in DOMAIN sales : sales[i].order_date = NaT

\* C9: import_to_db never changes or deletes a stored row: every row
\* present before a step is present, at its place and identical, after it,
\* and no row appended by the step has the key of a row stored before it
\* (the imported row of a stored key is discarded).
C9_StoredRowsKept ==
    [][ /\ Len(sales') >= Len(sales)
        /\ \A i \in DOMAIN sales : sales'[i] = sales[i]
        /\ \A j \in (Len(sales) + 1)..Len(sales') : \A i \in DOMAIN sales :
               <<sales'[j].order_date, sales'[j].marketplace, sales'[j].sheet, sales'[j].sku>>
               # <<sales[i].order_date, sales[i].marketplace, sales[i].sheet, sales[i].sku>>
      ]_vars

\* C9 witness: a call brought a row with the key of a stored row and other
\* values, and returned normally.
C9_ClashingRowImported ==
    /\ run = "imported"
    /\ ret.status = "ok"
    /\ ret.clash
    /\ sales # <<>>

\* C10: two import_to_db calls running concurrently on inputs that share a
\* key both finish without an error, and no key is stored twice.
C10_ConcurrentImportsSucceed ==
    (\A p \in Sessions : sess[p].pc \in {"done", "raised"}) =>
        /\ \A p \in Sessions : sess[p].pc = "done" /\ sess[p].status = "ok"
        /\ \A i \in DOMAIN sales : \A j \in DOMAIN sales :
               i # j => Key(sales[i]) # Key(sales[j])

\* The two ways C10 fails, one at a time: a session raises, or a key with a
\* missing order_date is stored twice with no session raising.
ConcurrentImportsNeverRaise == \A p \in Sessions : sess[p].pc # "raised"
ConcurrentImportsNoDuplicateKey ==
    \A i \in DOMAIN sales : \A j \in DOMAIN sales : i # j => Key(sales[i]) # Key(sales[j])

(***************************************************************************)
(* Properties of the order fetchers                                        *)
(***************************************************************************)
\* The fetcher has left its paging loop with every response a 200.
Returned == fetch.pc \in {"done", "raised"} /\ ~fetch.failed

\* C2: for WortenAPI and LeroyMerlinAPI and every sequence of successful
\* responses, get_orders returns a table with at least the columns
\* order_id, order_date, sale_price, taxes, commission, shipping,
\* product_name and order_status, also when there is no order and when no
\* order received has an order line.
C2_GetOrdersHasTheColumns ==
    (Returned /\ fetch.who \in {"WortenAPI", "LeroyMerlinAPI"}) =>
        /\ fetch.pc = "done"
        /\ fetch.result.kind = "table"
        /\ {"order_id", "order_date", "sale_price", "taxes", "commission", "shipping",
            "product_name", "order_status"} \subseteq fetch.result.cols

\* C4: in each fetcher an HTTP error status on any page makes the call
\* raise: once a response was an error the call has raised HTTPError, no
\* table is returned (the orders of earlier pages are not), and no further
\* page is requested.
C4_HttpErrorRaises ==
    [][ fetch'.failed =>
          /\ fetch'.pc = "raised"
          /\ fetch'.exc = "HTTPError"
          /\ fetch'.result = NoResult
          /\ fetch.failed => fetch'.nreq = fetch.nreq
      ]_vars

\* C4 witness: the error came on a later page, with the orders of the
\* earlier pages already collected.
C4_ErrorOnLaterPage ==
    /\ fetch.failed
    /\ fetch.pc = "raised"
    /\ fetch.nreq > 1
    /\ fetch.all_orders # <<>>

\* C5: the offset pagination of WortenAPI.get_orders and get_orders_worten
\* retrieves every order: all_orders is exactly the orders of the server,
\* each once and in server order, for every number of orders and page size,
\* with or without total_count in the responses.
C5_PaginationRetrievesAll ==
    (Returned /\ fetch.who \in {"WortenAPI", "get_orders_worten"}) =>
        fetch.all_orders = fetch.server.orders

\* What does hold of the offset pagination: it retrieves every order from a
\* server that sends total_count, and the first page from one that does not.
PaginationWithTotalCount ==
    (Returned /\ fetch.who \in {"WortenAPI", "get_orders_worten"}) =>
        fetch.all_orders =
            IF fetch.server.has_total THEN fetch.server.orders
            ELSE SubSeq(fetch.server.orders, 1, Min(fetch.page_size, Len(fetch.server.orders)))

\* The order lines of the orders fetched, as <<order, line>>, in order.
RECURSIVE LinesOf(_)
LinesOf(orders) ==
    IF orders = <<>> THEN <<>>
    ELSE [i \in DOMAIN Head(orders).order_lines |-> <<Head(orders), Head(orders).order_lines[i]>>]
         \o LinesOf(Tail(orders))

\* C6: WortenAPI.get_orders returns one row per order line when some order
\* fetched has a line: as many rows as order lines over all orders, each
\* row with the order_id, order_date, order_status, sale_price, taxes,
\* commission and shipping of the order of its line; an order with no line
\* contributes no row.
C6_OneRowPerOrderLine ==
    LET lines == LinesOf(fetch.all_orders)
    IN  (Returned /\ fetch.who = "WortenAPI" /\ lines # <<>>) =>
            /\ fetch.pc = "done"
            /\ Len(fetch.result.rows) = Len(lines)
            /\ \A k \in DOMAIN lines :
                  LET o == lines[k][1]
                      r == fetch.result.rows[k]
                  IN  /\ r.order_id = o.order_id
                      /\ r.order_date = <<o.creation_date[2], o.creation_date[3]>>
                      /\ r.order_status = o.order_state
                      /\ r.sale_price = o.total_price
                      /\ r.taxes = o.tax_amount
                      /\ r.commission = o.total_commission
                      /\ r.shipping = o.shipping_price
                      /\ r.sku = lines[k][2].offer_sku

\* What does hold of the rows of WortenAPI.get_orders: C6 with the taxes of
\* a row being the shipping price of its order, and the tax amount only
\* when the shipping price is 0.
OneRowPerOrderLineShippingAsTaxes ==
    LET lines == LinesOf(fetch.all_orders)
    IN  (Returned /\ fetch.who = "WortenAPI" /\ lines # <<>>) =>
            /\ fetch.pc = "done"
            /\ Len(fetch.result.rows) = Len(lines)
            /\ \A k \in DOMAIN lines :
                  LET o == lines[k][1]
                      r == fetch.result.rows[k]
                  IN  /\ r.order_id = o.order_id
                      /\ r.order_date = <<o.creation_date[2], o.creation_date[3]>>
                      /\ r.order_status = o.order_state
                      /\ r.sale_price = o.total_price
                      /\ r.taxes = IF o.shipping_price # 0 THEN o.shipping_price ELSE o.tax_amount
                      /\ r.commission = o.total_commission
                      /\ r.shipping = o.shipping_price
                      /\ r.sku = lines[k][2].offer_sku

\* C7: for every sequence of successful responses, also one with no order
\* in the range, get_orders_worten returns a table with the columns
\* order_id, order_date, sale_price, taxes, commission, shipping,
\* order_status and product_name, and the dashboard section reading these
\* columns meets no missing column.
C7_OrdersTableHasTheColumns ==
    (Returned /\ fetch.who = "get_orders_worten") =>
        /\ fetch.pc = "done"
        /\ fetch.result.cols =
             {"order_id", "order_date", "sale_price", "taxes", "commission", "shipping",
              "order_status", "product_name"}
        /\ fetch.shown \in {"none", "shown"}

(***************************************************************************)
(* Properties of get_api                                                   *)
(***************************************************************************)
\* name is key with whitespace before and after it, and nothing else
Padded(name, key) ==
    \E before \in 0..Len(name) : \E after \in 0..Len(name) :
        /\ before + Len(key) + after = Len(name)
        /\ \A k \in 1..before : name[k] \in {" ", "\t"}
        /\ \A k \in 1..Len(key) : name[before + k] = key[k]
        /\ \A k \in 1..after : name[before + Len(key) + k] \in {" ", "\t"}

\* C3: get_api(name) returns a client of the class registered under name
\* with its leading and trailing whitespace removed, and one client is
\* created; for every other name (another case included) it raises
\* ValueError and creates no client.
C3_GetApiByStrippedName ==
    [][ api'.pc = "called" =>
          LET name == api'.name
          IN  /\ Padded(name, <<"Worten">>) =>
                   /\ api'.ret = [kind |-> "client", class |-> "WortenAPI"]
                   /\ api'.created = Append(api.created, "WortenAPI")
              /\ Padded(name, <<"Leroy", " ", "Merlin">>) =>
                   /\ api'.ret = [kind |-> "client", class |-> "LeroyMerlinAPI"]
                   /\ api'.created = Append(api.created, "LeroyMerlinAPI")
              /\ (~Padded(name, <<"Worten">>) /\ ~Padded(name, <<"Leroy", " ", "Merlin">>)) =>
                   /\ api'.ret.kind = "ValueError"
                   /\ api'.created = api.created
      ]_vars

\* C3 witness: a name with whitespace on both sides of a registered name
\* got its client.
C3_PaddedNameResolved ==
    /\ api.pc = "called"
    /\ api.name = <<" ", "Worten", "\t">>
    /\ api.ret = [kind |-> "client", class |-> "WortenAPI"]
    /\ api.created # <<>>

(***************************************************************************)
(* Properties of the KPI section                                           *)
(***************************************************************************)
\* The stored rows whose marketplace is selected and whose order_date falls
\* on a day from sd to ed, both days included.
RowsOfPeriod(sel, sd, ed) ==
    SelectIdx(sales,
              { i \in DOMAIN sales :
                  /\ sales[i].marketplace \in sel
                  /\ sales[i].order_date # NaT
                  /\ sd <= sales[i].order_date[1]
                  /\ sales[i].order_date[1] <= ed })

\* C8: the KPIs are consistent with the filtered rows: the filtered set is
\* exactly the stored rows of the selected marketplaces dated from the start
\* to the end date, both included; the overall margin is sum(sale) -
\* (sum(purchase_cost) + sum(commission)) over that set; the per-marketplace
\* sales, cost, commission and margin each add up to the overall figure.
C8_KpiConsistentWithPeriod ==
    view.shown # "none" =>
        LET rows == RowsOfPeriod(view.sel, view.sd, view.ed)
        IN  /\ view.filt = rows
            /\ view.shown = "kpi" =>
                 /\ view.margin_l = SumCol(rows, "sale")
                                      - (SumCol(rows, "purchase_cost") + SumCol(rows, "commission"))
                 /\ SumOver([m \in DOMAIN view.summary |-> view.summary[m].vendite],
                            DOMAIN view.summary)
                      = view.sales_sum
                 /\ SumOver([m \in DOMAIN view.summary |-> view.summary[m].acquisto],
                            DOMAIN view.summary)
                      = view.cost_sum
                 /\ SumOver([m \in DOMAIN view.summary |-> view.summary[m].commissione],
                            DOMAIN view.summary)
                      = view.comm_sum
                 /\ SumOver([m \in DOMAIN view.summary |-> view.summary[m].margine_lordo],
                            DOMAIN view.summary)
                      = view.margin_l

\* What does hold of the KPI section: the same with the period read as the
\* timestamps from midnight of the start date to midnight of the end date.
KpiConsistentWithTimestamps ==
    view.shown # "none" =>
        LET rows == SelectIdx(sales,
                        { i \in DOMAIN sales :
                            /\ sales[i].marketplace \in view.sel
                            /\ sales[i].order_date # NaT
                            /\ TsLeq(<<view.sd, 0>>, sales[i].order_date)
                            /\ TsLeq(sales[i].order_date, <<view.ed, 0>>) })
        IN  /\ view.filt = rows
            /\ (view.shown = "warning") = (rows = <<>>)
            /\ view.shown = "kpi" =>
                 /\ view.n_ordini = Len(rows)
                 /\ view.margin_l = SumCol(rows, "sale")
                                      - (SumCol(rows, "purchase_cost") + SumCol(rows, "commission"))
                 /\ SumOver([m \in DOMAIN view.summary |-> view.summary[m].vendite],
                            DOMAIN view.summary)
                      = view.sales_sum
                 /\ SumOver([m \in DOMAIN view.summary |-> view.summary[m].acquisto],
                            DOMAIN view.summary)
                      = view.cost_sum
                 /\ SumOver([m \in DOMAIN view.summary |-> view.summary[m].commissione],
                            DOMAIN view.summary)
                      = view.comm_sum
                 /\ SumOver([m \in DOMAIN view.summary |-> view.summary[m].margine_lordo],
                            DOMAIN view.summary)
                      = view.margin_l

====
